---- MODULE Spec2Model ----
(***************************************************************************)
(* Artifact lifecycle and execution audit of the genomics pipeline:        *)
(*   - log_command (src/log_command.py): runs one command, writes the      *)
(*     audit log log_file.txt in the current directory, raises on failure; *)
(*   - create_folder / delete_files_from_folder (src/helpers.py): move     *)
(*     outputs into a stage directory, prune a stage directory;            *)
(*   - run_gatks4 / callmapping: the stages that issue the commands;       *)
(*   - bundle_pipeline_results.py: discovery, staging and manifest.        *)
(*                                                                         *)
(* File names and path components are sequences of one-character strings,  *)
(* so that endswith, splitext, "/"-joins and glob matching are computed as *)
(* the code computes them.  A path is a sequence of components.            *)
(***************************************************************************)
EXTENDS Naturals, Sequences, FiniteSets, TLC

VARIABLES
    fs,        \* pipeline-side file system: path -> [t : "dir"|"file", c : content]
    clock,     \* datetime.now(), a logical clock
    calls,     \* number of log_command calls made so far
    written,   \* every ExecutionRecord chunk ever passed to write_logs (history)
    last,      \* the last operation: its arguments, result and what it needs of the pre-state
    pc,        \* callmapping: the stage about to run
    cfg,       \* callmapping: its arguments
    cwd,       \* callmapping: the process's current directory (os.chdir)
    launched,  \* callmapping: labels of the commands launched, in order
    pending,   \* callmapping: mark-duplicate files still to recalibrate (split loop)
    src,       \* bundler: the run tree it scans
    out,       \* bundler: the bundle output directory, dst path -> staged entry
    manifest,  \* bundler: the manifest dict built by main
    args,      \* bundler: its command-line arguments and the listing order of the tree
    bpc,       \* bundler: position of main
    run,       \* bundler: which run of main this is
    disk       \* bundler: what each finished run wrote/recorded

pipeVars == <<fs, clock, calls, written, last>>
flowVars == <<pc, cfg, cwd, launched, pending>>
bundleVars == <<src, out, manifest, args, bpc, run, disk>>
vars == <<fs, clock, calls, written, last, pc, cfg, cwd, launched, pending,
          src, out, manifest, args, bpc, run, disk>>

----------------------------------------------------------------------------
(* Bounds of the model *)

\* log_command calls per behaviour
MaxCalls == 3
\* mark-duplicate files of a chromosome-split run
MaxSplit == 2
\* files, links and empty directories of the run tree the bundler scans
MaxLeaves == 3
\* runs of the bundler against one output directory
MaxRuns == 2

----------------------------------------------------------------------------
(* Names *)

LogName == <<"l","o","g","_","f","i","l","e",".","t","x","t">>
WdName == <<"w","d">>
QCName == <<"Q","C">>
BwaName == <<"B","w","a">>
MappingName == <<"M","a","p","p","i","n","g">>
PreProcessName == <<"P","r","e","P","r","o","c","e","s","s">>
Gatk4Name == <<"G","A","T","K","4">>
OtherName == <<"O","t","h","e","r">>
XBam == <<"X",".","b","a","m">>
XBai == <<"X",".","b","a","i">>
YTxt == <<"Y",".","t","x","t">>
FastqGz == <<"r",".","f","a","s","t","q",".","g","z">>
DotBam == <<".","b","a","m">>
DotBai == <<".","b","a","i">>
DotGz == <<".","g","z">>

\* Python's None, as an argument value that is no name
None == <<"<None>">>

----------------------------------------------------------------------------
(* str and os.path *)

\* str.endswith
EndsWith(s, suf) ==
    /\ Len(s) >= Len(suf)
    /\ SubSeq(s, Len(s) - Len(suf) + 1, Len(s)) = suf

\* str.rfind, 1-based; 0 when absent
RFind(s, ch) ==
    LET hits == {i \in 1..Len(s) : s[i] = ch}
    IN IF hits = {} THEN 0 ELSE CHOOSE i \in hits : \A j \in hits : j <= i

\* os.path.splitext: the extension starts at the last dot after the last "/",
\* unless only dots precede it in the file name
SplitExt(p) ==
    LET sep == RFind(p, "/")
        dot == RFind(p, ".")
    IN IF dot > sep /\ \E i \in (sep + 1)..(dot - 1) : p[i] # "."
       THEN <<SubSeq(p, 1, dot - 1), SubSeq(p, dot, Len(p))>>
       ELSE <<p, <<>>>>

\* the components of a relative name holding "/" separators
RECURSIVE SplitSep(_)
SplitSep(s) ==
    LET hits == {i \in 1..Len(s) : s[i] = "/"}
    IN IF hits = {} THEN (IF s = <<>> THEN <<>> ELSE <<s>>)
       ELSE LET i == CHOOSE k \in hits : \A j \in hits : k <= j
                head == SubSeq(s, 1, i - 1)
            IN (IF head = <<>> THEN <<>> ELSE <<head>>)
                 \o SplitSep(SubSeq(s, i + 1, Len(s)))

\* os.path.join(dir, name) for a relative name
Join(dir, name) == dir \o SplitSep(name)

IsPrefix(a, b) == Len(a) <= Len(b) /\ SubSeq(b, 1, Len(a)) = a

----------------------------------------------------------------------------
(* The file system *)

DirNode == [t |-> "dir", c |-> <<>>]
FileNode(content) == [t |-> "file", c |-> content]

\* os.path.exists / os.path.isdir
PathExists(f, p) == p \in DOMAIN f
IsDir(f, p) == p \in DOMAIN f /\ f[p].t = "dir"

\* os.makedirs(p, exist_ok=True)
MakeDirs(f, p) ==
    LET want == {SubSeq(p, 1, i) : i \in 1..Len(p)}
    IN [q \in DOMAIN f \cup want |-> IF q \in DOMAIN f THEN f[q] ELSE DirNode]

\* os.listdir(d): names of the immediate entries
ListDir(f, d) ==
    {q[Len(q)] : q \in {r \in DOMAIN f : Len(r) = Len(d) + 1 /\ IsPrefix(d, r)}}

\* os.remove(p)
Remove(f, p) == [q \in DOMAIN f \ {p} |-> f[q]]

\* a tool (or open(p, "w")) writes file p
WriteFile(f, p, content) ==
    [q \in DOMAIN f \cup {p} |-> IF q = p THEN FileNode(content) ELSE f[q]]

\* shutil.move(s, d): into d when d is a directory, else os.rename(s, d),
\* which replaces an existing file d
Move(f, s, d) ==
    LET real == IF IsDir(f, d) THEN d \o <<s[Len(s)]>> ELSE d
        moved == {q \in DOMAIN f : IsPrefix(s, q)}
        rebase(q) == real \o SubSeq(q, Len(s) + 1, Len(q))
        landed == {rebase(q) : q \in moved}
        stay == {q \in DOMAIN f \ moved : ~IsPrefix(real, q)}
    IN [q \in stay \cup landed |->
            IF q \in landed THEN f[CHOOSE m \in moved : rebase(m) = q] ELSE f[q]]

\* the part of f at or below directory d
Below(f, d) == [q \in {r \in DOMAIN f : IsPrefix(d, r)} |-> f[q]]

----------------------------------------------------------------------------
(* log_command *)

\* the standard-error texts a command may print
ErrTexts == {<<>>, <<"e","r","r">>}

\* what the launched process does: it exits with a status and some text on
\* its standard error, or the launch itself raises
FailCodes == {1, 2}
Procs ==
    {[kind |-> "exit", code |-> 0, err |-> <<>>]}
      \cup {[kind |-> "exit", code |-> c, err |-> e] : c \in FailCodes, e \in ErrTexts}
      \cup {[kind |-> "exception", code |-> 0, err |-> <<>>]}

\* the commands of gatk_pre_processing.py and helpers.create_index
CmdRecal ==
    [command |-> "gatk BaseRecalibrator", from_function |-> "Base Recalibrator",
     th |-> "2", f_class |-> "Gatk4PreProcessing"]
CmdApply ==
    [command |-> "gatk ApplyBQSR", from_function |-> "ApplyBQSR",
     th |-> "2", f_class |-> "Gatk4PreProcessing"]
CmdIndex ==
    [command |-> "picard BuildBamIndex",
     from_function |-> "Create Index by GATK_ApplyBSQR",
     th |-> "2", f_class |-> "GatkPreProcess"]

StatusSuccess == <<"success">>
StatusExit(n) == <<"failed (exit_code=", n, ")">>
StatusException == <<"failed (exception)">>

\* subprocess stores a stream's text in the result only when the stream is a pipe
Captured(stream, text) == IF stream = "PIPE" THEN text ELSE None

\* subprocess.run(self.command, shell=True, text=True): stderr is inherited
SubprocessRun(command, proc) ==
    [returncode |-> proc.code, stderr |-> Captured("inherit", proc.err)]

\* Python truth value of result.stderr
Truthy(x) == x # None /\ x # <<>>

\* one line of the log: prefix, end time, status, command
RecordLine(self, start, end, status) ==
    [k |-> "record",
     f |-> <<self.f_class, self.from_function, self.th, start, end, status,
             self.command>>]

StderrBlock(text) == [k |-> "stderr", f |-> <<"STDERR:", text>>]

\* the try body: what it writes, and whether it leaves by an exception
\* (the launch exception, or the RuntimeError raised after a non-zero exit)
TryBody(self, proc, now) ==
    LET result == SubprocessRun(self.command, proc)
    IN IF proc.kind = "exception"
       THEN [writes |-> <<>>, exc |-> "launch", ticks |-> 1]
       ELSE IF result.returncode = 0
       THEN [writes |-> <<RecordLine(self, now, now + 1, StatusSuccess)>>,
             exc |-> "none", ticks |-> 2]
       ELSE [writes |->
                <<RecordLine(self, now, now + 1, StatusExit(result.returncode))>>
                  \o (IF Truthy(result.stderr)
                      THEN <<StderrBlock(result.stderr)>> ELSE <<>>),
             exc |-> "RuntimeError", ticks |-> 2]

\* SystemCommandSend that returns after logging a non-zero exit
SystemCommandSendNoRaise(self, proc, now) ==
    LET body == TryBody(self, proc, now)
    IN IF body.exc = "launch"
       THEN [writes |-> <<RecordLine(self, now, now + 1, StatusException)>>,
             raised |-> TRUE, ticks |-> 2]
       ELSE [writes |-> body.writes, raised |-> FALSE, ticks |-> body.ticks]

\* system_command_send: the try body, then "except Exception", which catches
\* whatever the body raised, writes its own line and re-raises
SystemCommandSend(self, proc, now) ==
    LET body == TryBody(self, proc, now)
    IN IF body.exc = "none"
       THEN [writes |-> body.writes, raised |-> FALSE, ticks |-> body.ticks]
       ELSE [writes |-> body.writes
                  \o <<RecordLine(self, now, now + body.ticks, StatusException)>>,
             raised |-> TRUE, ticks |-> body.ticks + 1]

\* content of the log in directory d (empty when there is none)
LogOf(f, d) ==
    IF (d \o <<LogName>>) \in DOMAIN f THEN f[d \o <<LogName>>].c ELSE <<>>

\* WriteLogs opening the log with mode "w"
WriteLogsTruncate(f, d, chunks) ==
    IF chunks = <<>> THEN f
    ELSE WriteFile(f, d \o <<LogName>>, chunks)

\* write_logs, once per chunk: open("log_file.txt", "a") in the current directory
WriteLogs(f, d, chunks) ==
    IF chunks = <<>> THEN f
    ELSE WriteFile(f, d \o <<LogName>>, LogOf(f, d) \o chunks)

RecordsOf(chunks) == {chunks[i] : i \in {j \in 1..Len(chunks) : chunks[j].k = "record"}}

\* log_command(...) run with d as current directory on file system f at time
\* now: the constructor calls system_command_send
RunCommand(f, self, proc, d, now) ==
    LET r == SystemCommandSend(self, proc, now)
    IN [fs |-> WriteLogs(f, d, r.writes), raised |-> r.raised, ticks |-> r.ticks,
        records |-> RecordsOf(r.writes)]

\* the history of a log_command call
CallInfo(self, proc, d, raised) ==
    [op |-> "log_command", self |-> self, proc |-> proc, dir |-> d,
     start |-> clock, pre |-> LogOf(fs, d), raised |-> raised]

\* a log_command call and nothing else
DoLogCommand(self, proc, d) ==
    LET r == RunCommand(fs, self, proc, d, clock)
    IN /\ fs' = r.fs
       /\ clock' = clock + r.ticks
       /\ calls' = calls + 1
       /\ written' = written \cup r.records
       /\ last' = CallInfo(self, proc, d, r.raised)

----------------------------------------------------------------------------
(* helpers.create_folder and helpers.delete_files_from_folder *)

\* MoveEach without the os.path.exists test: the move of a missing file
\* raises and the loop ends there
RECURSIVE MoveEachStrict(_, _, _, _)
MoveEachStrict(f, names, working_directory, mk_dir) ==
    IF names = {} THEN f
    ELSE LET n == CHOOSE x \in names : TRUE
             from == Join(working_directory, n)
         IN IF ~PathExists(f, from) THEN f
            ELSE MoveEachStrict(Move(f, from, Join(mk_dir, n)), names \ {n},
                                working_directory, mk_dir)

\* the loop "for f in files: if exists(src): shutil.move(src, join(mk_dir, f))"
\* (the files have distinct names, so the order of the moves does not matter)
RECURSIVE MoveEach(_, _, _, _)
MoveEach(f, names, working_directory, mk_dir) ==
    IF names = {} THEN f
    ELSE LET n == CHOOSE x \in names : TRUE
             from == Join(working_directory, n)
             g == IF PathExists(f, from) THEN Move(f, from, Join(mk_dir, n)) ELSE f
         IN MoveEach(g, names \ {n}, working_directory, mk_dir)

\* the destination directory create_folder computes
CreateFolderDest(working_directory, map_type, step, folder_directory) ==
    LET fd == IF folder_directory = None THEN working_directory ELSE folder_directory
    IN IF step = QCName THEN Join(working_directory, QCName)
       ELSE IF map_type = None THEN Join(fd, step)
       ELSE Join(Join(fd, map_type), step)

\* create_folder(working_directory, all_files, map_type, step, folder_directory)
CreateFolder(f, working_directory, all_files, map_type, step, folder_directory) ==
    LET files == all_files \cup {LogName}
        mk_dir == CreateFolderDest(working_directory, map_type, step, folder_directory)
        made == MakeDirs(f, mk_dir)
    IN IF step = QCName
       THEN MoveEach(made, files, working_directory, mk_dir)
       ELSE MoveEach(made, {n \in files : ~EndsWith(n, DotGz)},
                     working_directory, mk_dir)

\* KeepSet without the derived index names
KeepSetNoBai(keep_files) == keep_files \cup {LogName}

\* the effective keep-set: keep_files, the log, and the .bai of every kept .bam
KeepSet(keep_files) ==
    LET keep == keep_files \cup {LogName}
        keep_bais == {SplitExt(n)[1] \o DotBai : n \in {k \in keep : EndsWith(k, DotBam)}}
    IN keep \cup keep_bais

\* Doomed without the "never touch dirs" test
DoomedWithDirs(f, folder, keep_files) ==
    {name \in ListDir(f, folder) : name \notin KeepSet(keep_files)}

\* the names the loop over os.listdir(folder) removes
Doomed(f, folder, keep_files) ==
    {name \in ListDir(f, folder) :
        /\ ~IsDir(f, Join(folder, name))
        /\ name \notin KeepSet(keep_files)}

RECURSIVE RemoveEach(_, _, _)
RemoveEach(f, folder, names) ==
    IF names = {} THEN f
    ELSE LET n == CHOOSE x \in names : TRUE
         IN RemoveEach(Remove(f, Join(folder, n)), folder, names \ {n})

\* DeleteFilesFromFolder that makes the target directory when it is missing
DeleteFilesFromFolderMakes(f, base_dir, map_type, step, keep_files) ==
    LET folder == Join(Join(base_dir, map_type), step)
        made == IF IsDir(f, folder) THEN f ELSE MakeDirs(f, folder)
        gone == Doomed(made, folder, keep_files)
    IN [fs |-> RemoveEach(made, folder, gone), deleted |-> gone]

\* delete_files_from_folder(base_dir, map_type, step, keep_files): the new file
\* system and the returned list (os.listdir gives no order: its set of names)
DeleteFilesFromFolder(f, base_dir, map_type, step, keep_files) ==
    LET folder == Join(Join(base_dir, map_type), step)
    IN IF ~IsDir(f, folder) THEN [fs |-> f, deleted |-> {}]
       ELSE LET gone == Doomed(f, folder, keep_files)
            IN [fs |-> RemoveEach(f, folder, gone), deleted |-> gone]

----------------------------------------------------------------------------------------------------------------------------------------
(* The operations on one working directory, in any order *)

WD == <<WdName>>
StageDir(step) == <<WdName, BwaName, step>>
Gatk4Dir == <<WdName, BwaName, PreProcessName, Gatk4Name>>

\* a stored file's content: who wrote it
ToolData == <<"data">>

\* a tool writes one of its outputs into the working directory
ToolWrites(name) ==
    /\ ~PathExists(fs, Join(WD, name))
    /\ fs' = WriteFile(fs, Join(WD, name), ToolData)
    /\ last' = [op |-> "tool"]
    /\ UNCHANGED <<clock, calls, written>>

\* gatk4_base_recalibrator / gatk4_applybsqr: makedirs(GATK4), and the tool
\* writes its output below it
GatkWrites ==
    /\ ~PathExists(fs, Join(Gatk4Dir, XBam))
    /\ fs' = WriteFile(MakeDirs(fs, Gatk4Dir), Join(Gatk4Dir, XBam), ToolData)
    /\ last' = [op |-> "tool"]
    /\ UNCHANGED <<clock, calls, written>>

LogCommand(d, self, proc) ==
    /\ calls < MaxCalls
    /\ IsDir(fs, d)
    /\ DoLogCommand(self, proc, d)

CreateFolderOp(all_files, step) ==
    /\ fs' = CreateFolder(fs, WD, all_files, BwaName, step, None)
    /\ last' = [op |-> "create_folder", all_files |-> all_files, step |-> step,
                pre |-> Below(fs, WD)]
    /\ UNCHANGED <<clock, calls, written>>

DeleteOp(step, keep_files) ==
    LET r == DeleteFilesFromFolder(fs, WD, BwaName, step, keep_files)
    IN /\ fs' = r.fs
       /\ last' = [op |-> "delete", step |-> step, keep_files |-> keep_files,
                   deleted |-> r.deleted, pre |-> Below(fs, StageDir(step))]
       /\ UNCHANGED <<clock, calls, written>>

\* the variables of the other parts stay as they are
FlowIdle == pc = "idle" /\ cfg = <<>> /\ cwd = WD /\ launched = <<>> /\ pending = <<>>
BundleIdle ==
    /\ src = <<>> /\ out = <<>> /\ manifest = <<>> /\ args = <<>>
    /\ bpc = "idle" /\ run = 0 /\ disk = <<>>

\* the working directory holds the sample's FASTQ input and nothing else
PipeInit ==
    /\ fs = WriteFile(MakeDirs(<<>>, WD), Join(WD, FastqGz), ToolData)
    /\ clock = 0
    /\ calls = 0
    /\ written = {}
    /\ last = [op |-> "none"]

Init == PipeInit /\ FlowIdle /\ BundleIdle

(* Spec: commands, create_folder and delete_files_from_folder on one working
   directory, the audit log being what is followed *)

\* the directories commands are run in (os.chdir)
CwdArgs == {WD, StageDir(PreProcessName)}
\* the file lists handed to create_folder
AuditFilesArgs == {{}, {YTxt}}

Next ==
    \/ ToolWrites(YTxt) /\ UNCHANGED <<flowVars, bundleVars>>
    \/ \E d \in CwdArgs, proc \in Procs :
            LogCommand(d, CmdRecal, proc) /\ UNCHANGED <<flowVars, bundleVars>>
    \/ \E a \in AuditFilesArgs :
            CreateFolderOp(a, PreProcessName) /\ UNCHANGED <<flowVars, bundleVars>>
    \/ DeleteOp(PreProcessName, {}) /\ UNCHANGED <<flowVars, bundleVars>>

Spec == Init /\ [][Next]_vars

(* SpecPrune: tool outputs, create_folder and delete_files_from_folder, the
   files of a stage directory being what is followed *)

\* the names the tools of a stage write
ToolFiles == {XBam, XBai, YTxt}
\* the file lists handed to create_folder
AllFilesArgs == {{}, {XBam, XBai}, {XBam, XBai, YTxt, FastqGz}}
\* the keep lists handed to delete_files_from_folder
KeepArgs == {{}, {XBam}, {YTxt}, {XBam, Gatk4Name}}

NextPrune ==
    \/ \E n \in ToolFiles : ToolWrites(n) /\ UNCHANGED <<flowVars, bundleVars>>
    \/ GatkWrites /\ UNCHANGED <<flowVars, bundleVars>>
    \/ LogCommand(WD, CmdRecal, [kind |-> "exit", code |-> 0, err |-> <<>>])
         /\ UNCHANGED <<flowVars, bundleVars>>
    \/ \E a \in AllFilesArgs :
            CreateFolderOp(a, PreProcessName) /\ UNCHANGED <<flowVars, bundleVars>>
    \/ \E k \in KeepArgs :
            DeleteOp(PreProcessName, k) /\ UNCHANGED <<flowVars, bundleVars>>

SpecPrune == Init /\ [][NextPrune]_vars

----------------------------------------------------------------------------
(* Claims about log_command *)

\* what the last log_command call appended to the log of its directory
Appended ==
    SubSeq(LogOf(fs, last.dir), Len(last.pre) + 1, Len(LogOf(fs, last.dir)))

RecordIdx(chunks) == {i \in 1..Len(chunks) : chunks[i].k = "record"}
StatusAt(chunks, i) == chunks[i].f[6]

FailedExit(proc) == proc.kind = "exit" /\ proc.code # 0

\* C1: every call of system_command_send appends exactly one ExecutionRecord
\* line to log_file.txt, whether the command exits with zero, exits non-zero,
\* or the launch raises.
C1_ExactlyOneRecord ==
    last.op = "log_command" => Cardinality(RecordIdx(Appended)) = 1

\* C6: after a command that exits non-zero and printed standard error, the log
\* holds, after that command's failure record, a STDERR: block with the text.
C6_StderrBlockLogged ==
    (last.op = "log_command" /\ FailedExit(last.proc) /\ last.proc.err # <<>>) =>
        \E i, j \in 1..Len(Appended) :
            /\ i < j
            /\ Appended[i].k = "record"
            /\ StatusAt(Appended, i) = StatusExit(last.proc.code)
            /\ Appended[j] = StderrBlock(last.proc.err)

\* C7: a non-zero exit is recorded as failed (exit_code=N) and not as
\* failed (exception); a launch exception is recorded as failed (exception)
\* and with no exit-code status; both raise.
C7_DistinctStatusTags ==
    last.op = "log_command" =>
        LET st == {StatusAt(Appended, i) : i \in RecordIdx(Appended)}
        IN /\ FailedExit(last.proc) =>
                /\ StatusExit(last.proc.code) \in st
                /\ StatusException \notin st
                /\ last.raised
           /\ last.proc.kind = "exception" =>
                /\ StatusException \in st
                /\ \A x \in st : Len(x) = 1
                /\ last.raised

\* C5: every ExecutionRecord ever written is still, unmodified, in some
\* log_file.txt, after any sequence of commands, create_folder and
\* delete_files_from_folder calls.
C5_RecordsNeverLost ==
    \A r \in written :
        \E p \in DOMAIN fs :
            /\ p[Len(p)] = LogName
            /\ fs[p].t = "file"
            /\ \E i \in 1..Len(fs[p].c) : fs[p].c[i] = r

----------------------------------------------------------------------------
(* Claims about delete_files_from_folder *)

\* name is the index of the kept file b: b is <stem>.bam and name is <stem>.bai
IsBaiOf(name, b) ==
    /\ Len(b) > Len(DotBam)
    /\ EndsWith(b, DotBam)
    /\ name = SubSeq(b, 1, Len(b) - Len(DotBam)) \o DotBai

Protected(name, keep_files) ==
    \/ name \in keep_files
    \/ name = LogName
    \/ \E b \in keep_files : IsBaiOf(name, b)

\* the regular files directly in directory d of file system f
FilesIn(f, d) == {n \in ListDir(f, d) : f[Join(d, n)].t = "file"}

\* C3: delete_files_from_folder never deletes a file that is listed in
\* keep_files, is log_file.txt, or is the .bai of a kept .bam; with X.bam kept
\* and X.bam, X.bai and an unlisted Y.txt in the directory, X.bam and X.bai
\* stay and Y.txt is deleted.
C3_KeepSetProtected ==
    last.op = "delete" =>
        LET folder == StageDir(last.step)
            before == FilesIn(last.pre, folder)
            after == FilesIn(fs, folder)
        IN /\ \A n \in before :
                Protected(n, last.keep_files) =>
                    /\ n \in after
                    /\ fs[Join(folder, n)] = last.pre[Join(folder, n)]
                    /\ n \notin last.deleted
           /\ (XBam \in last.keep_files /\ YTxt \notin last.keep_files
                 /\ {XBam, XBai, YTxt} \subseteq before) =>
                    /\ {XBam, XBai} \subseteq after
                    /\ YTxt \notin after
                    /\ YTxt \in last.deleted

C3_Witness ==
    /\ last.op = "delete"
    /\ XBam \in last.keep_files
    /\ XBai \notin last.keep_files
    /\ {XBam, XBai, YTxt, LogName} \subseteq FilesIn(last.pre, StageDir(last.step))
    /\ FilesIn(fs, StageDir(last.step)) = {XBam, XBai, LogName}

\* C4: delete_files_from_folder never deletes a subdirectory of the target
\* directory and never deletes or changes a file below one, whatever the
\* keep-set holds.
C4_PruningIsFlat ==
    last.op = "delete" =>
        LET folder == StageDir(last.step)
        IN \A p \in DOMAIN last.pre :
              (last.pre[p].t = "dir" \/ Len(p) > Len(folder) + 1) =>
                  (p \in DOMAIN fs /\ fs[p] = last.pre[p])

C4_Witness ==
    /\ last.op = "delete"
    /\ last.deleted # {}
    /\ Gatk4Name \notin last.keep_files
    /\ Join(Gatk4Dir, XBam) \in DOMAIN last.pre
    /\ Join(Gatk4Dir, XBam) \in DOMAIN fs

----------------------------------------------------------------------------
(* callmapping and GatkPreProcessing.run_gatks4 *)

QHtml == <<"q",".","h","t","m","l">>
RecalSuffix == <<"_","R","E","C","A","L",".","t","a","b","l","e">>
BqsrBamSuffix == <<".","B","Q","S","R",".","b","a","m">>
Slash == <<"/">>

\* the i-th mark-duplicate file of a run: M.bam, Mc.bam, Mcc.bam, ...
MdupName(i) == <<"M">> \o [j \in 1..(i - 1) |-> "c"] \o DotBam

\* the commands of the stages whose code is outside this source tree
CmdQC ==
    [command |-> "fastp", from_function |-> "QC", th |-> "2", f_class |-> "QC"]
CmdMap ==
    [command |-> "bwa mem", from_function |-> "Mapping", th |-> "2",
     f_class |-> "Mapping"]
CmdMdup ==
    [command |-> "picard MarkDuplicates", from_function |-> "Mark Duplicates",
     th |-> "2", f_class |-> "PreProcessing"]

\* the arguments of callmapping
Configs ==
    [tr : {"Yes", "No"}, gt : {"Yes", "No"}, sc : {"Yes", "No"},
     middle_files : {"Yes", "No"}]

mdf_keep == cfg.middle_files = "Yes"

\* a command of the run: launched in the current directory; a raise leaves
\* callmapping (nothing catches it), otherwise produced is the file system
\* once the step's remaining statements have run and the run goes on at next
FlowCommand(self, proc, d, before, file, next) ==
    LET r == RunCommand(before, self, proc, d, clock)
    IN /\ clock' = clock + r.ticks
       /\ calls' = calls + 1
       /\ written' = written \cup r.records
       /\ last' = CallInfo(self, proc, d, r.raised)
       /\ launched' = Append(launched,
                             [fn |-> self.from_function, start |-> clock, file |-> file])
       /\ pc' = IF r.raised THEN "raised" ELSE next
       /\ IF r.raised THEN fs' = r.fs ELSE TRUE

\* the file system a command left, for the statements that follow it
AfterCommand(self, proc, d, before) == RunCommand(before, self, proc, d, clock).fs
Succeeds(self, proc) == ~SystemCommandSend(self, proc, clock).raised

\* lines 28-39: chdir, then QC when trimming is asked for and QC/ is not there
FlowStart ==
    /\ pc = "start"
    /\ cwd' = WD
    /\ pc' = IF cfg.tr = "Yes" /\ ~PathExists(fs, Join(WD, QCName)) THEN "qc" ELSE "map"
    /\ UNCHANGED <<pipeVars, cfg, launched, pending>>

\* qc_trim.QC(...).run_qc(): the command, then its report is moved to QC/
FlowQC(proc) ==
    /\ pc = "qc"
    /\ FlowCommand(CmdQC, proc, cwd, fs, None, "map")
    /\ Succeeds(CmdQC, proc) =>
         fs' = CreateFolder(WriteFile(AfterCommand(CmdQC, proc, cwd, fs),
                                      Join(WD, QHtml), ToolData),
                            WD, {QHtml}, BwaName, QCName, None)
    /\ UNCHANGED <<cfg, cwd, pending>>

\* mapping_step.mapping(): the command, then its outputs are moved to Mapping/
FlowMapping(proc) ==
    /\ pc = "map"
    /\ FlowCommand(CmdMap, proc, cwd, fs, None, "prune_map")
    /\ Succeeds(CmdMap, proc) =>
         fs' = CreateFolder(
                  WriteFile(WriteFile(AfterCommand(CmdMap, proc, cwd, fs),
                                      Join(WD, XBam), ToolData),
                            Join(WD, YTxt), ToolData),
                  WD, {XBam, YTxt}, BwaName, MappingName, None)
    /\ UNCHANGED <<cfg, cwd, pending>>

\* lines 48-49: prune Mapping/ down to mapping_files
FlowPruneMapping ==
    /\ pc = "prune_map"
    /\ fs' = IF mdf_keep THEN fs
             ELSE DeleteFilesFromFolder(fs, WD, BwaName, MappingName, {XBam}).fs
    /\ last' = [op |-> "prune", step |-> MappingName, ran |-> ~mdf_keep]
    /\ pc' = "mdup"
    /\ UNCHANGED <<clock, calls, written, cfg, cwd, launched, pending>>

\* pre_processing_step.pre_process(...): the command, then the mark-duplicate
\* files (one, or one per chromosome) are moved to PreProcess/
FlowPreProcess(proc, n) ==
    LET files == {MdupName(i) : i \in 1..n}
        wrote == [q \in DOMAIN AfterCommand(CmdMdup, proc, cwd, fs)
                          \cup {Join(WD, m) : m \in files} |->
                    IF q \in {Join(WD, m) : m \in files} THEN FileNode(ToolData)
                    ELSE AfterCommand(CmdMdup, proc, cwd, fs)[q]]
    IN /\ pc = "mdup"
       /\ n = (IF cfg.sc # "No" /\ cfg.gt = "Yes" THEN MaxSplit ELSE 1)
       /\ FlowCommand(CmdMdup, proc, cwd, fs, None,
                      IF cfg.gt = "Yes" THEN "recal" ELSE "prune_pre")
       /\ Succeeds(CmdMdup, proc) =>
             fs' = CreateFolder(wrote, WD, files, BwaName, PreProcessName, None)
       /\ pending' = [i \in 1..n |-> MdupName(i)]
       /\ UNCHANGED <<cfg, cwd>>

\* GatkPreProcessing(...) and gatk4_base_recalibrator(file)
FlowRecal(proc) ==
    LET file == Head(pending)
        dir == StageDir(PreProcessName)
        made == MakeDirs(MakeDirs(fs, dir), Gatk4Dir)
        table == Join(Gatk4Dir, SplitExt(file)[1] \o RecalSuffix)
    IN /\ pc = "recal"
       /\ cwd' = dir
       /\ FlowCommand(CmdRecal, proc, dir, made, file, "apply")
       /\ Succeeds(CmdRecal, proc) =>
             fs' = WriteFile(AfterCommand(CmdRecal, proc, dir, made), table, ToolData)
       /\ UNCHANGED <<cfg, pending>>

\* gatk4_applybsqr(file, table), up to its ApplyBQSR command
FlowApply(proc) ==
    LET file == Head(pending)
        made == MakeDirs(fs, Gatk4Dir)
        bam == Join(Gatk4Dir, SplitExt(file)[1] \o BqsrBamSuffix)
    IN /\ pc = "apply"
       /\ FlowCommand(CmdApply, proc, cwd, made, file, "index")
       /\ Succeeds(CmdApply, proc) =>
             fs' = WriteFile(AfterCommand(CmdApply, proc, cwd, made), bam, ToolData)
       /\ UNCHANGED <<cfg, cwd, pending>>

\* helpers.create_index(afterbqsrbam, ...), then the rest of run_gatks4 and of
\* the branch of callmapping that called it
FlowIndex(proc) ==
    LET file == Head(pending)
        bam == SplitExt(file)[1] \o BqsrBamSuffix
        bai == Join(Gatk4Dir, SplitExt(bam)[1] \o DotBai)
    IN /\ pc = "index"
       /\ FlowCommand(CmdIndex, proc, cwd, fs, file,
                      IF cfg.sc # "No"
                      THEN (IF Len(pending) > 1 THEN "recal" ELSE "done")
                      ELSE "prune_pre")
       /\ Succeeds(CmdIndex, proc) =>
             fs' = WriteFile(AfterCommand(CmdIndex, proc, cwd, fs), bai, ToolData)
       /\ pending' = IF Succeeds(CmdIndex, proc) /\ cfg.sc # "No"
                     THEN Tail(pending) ELSE pending
       /\ UNCHANGED <<cfg, cwd>>

\* glob.glob(os.path.join("GATK4", "*.BQSR.bam")) with PreProcess/ as current
\* directory
GatkFiles(f) ==
    {Gatk4Name \o Slash \o n : n \in {m \in ListDir(f, Gatk4Dir) : EndsWith(m, BqsrBamSuffix)}}

\* lines 80-81 and 84-85: prune PreProcess/ down to the stage's outputs
FlowPrunePreProcess ==
    LET keep_files == IF cfg.gt = "Yes" THEN GatkFiles(fs)
                      ELSE {pending[i] : i \in 1..Len(pending)}
    IN /\ pc = "prune_pre"
       /\ fs' = IF mdf_keep THEN fs
                ELSE DeleteFilesFromFolder(fs, WD, BwaName, PreProcessName, keep_files).fs
       /\ last' = [op |-> "prune", step |-> PreProcessName, ran |-> ~mdf_keep]
       /\ pc' = "done"
       /\ UNCHANGED <<clock, calls, written, cfg, cwd, launched, pending>>

InitFlow ==
    /\ PipeInit
    /\ BundleIdle
    /\ pc = "start"
    /\ cfg \in Configs
    /\ cwd = WD
    /\ launched = <<>>
    /\ pending = <<>>

NextFlow ==
    \/ FlowStart /\ UNCHANGED bundleVars
    \/ \E proc \in Procs : FlowQC(proc) /\ UNCHANGED bundleVars
    \/ \E proc \in Procs : FlowMapping(proc) /\ UNCHANGED bundleVars
    \/ FlowPruneMapping /\ UNCHANGED bundleVars
    \/ \E proc \in Procs, n \in 1..MaxSplit : FlowPreProcess(proc, n) /\ UNCHANGED bundleVars
    \/ \E proc \in Procs : FlowRecal(proc) /\ UNCHANGED bundleVars
    \/ \E proc \in Procs : FlowApply(proc) /\ UNCHANGED bundleVars
    \/ \E proc \in Procs : FlowIndex(proc) /\ UNCHANGED bundleVars
    \/ FlowPrunePreProcess /\ UNCHANGED bundleVars

SpecFlow == InitFlow /\ [][NextFlow]_vars

----------------------------------------------------------------------------
(* Claims about callmapping *)

\* start times of the commands the log records as failed
FailedStarts == {r.f[4] : r \in {w \in written : w.f[6] # StatusSuccess}}

\* C2: when a command run through log_command fails, the call raises and no
\* later command of the stage or of callmapping is launched: the run has
\* stopped, the failed command is the last one launched, and after a failed
\* BaseRecalibrator neither ApplyBQSR nor the index build of that run_gatks4
\* call was started.
C2_FailFast ==
    /\ FailedStarts # {} => pc = "raised"
    /\ \A i \in 1..Len(launched) :
          launched[i].start \in FailedStarts => i = Len(launched)
    /\ (pc = "raised" /\ launched[Len(launched)].fn = CmdRecal.from_function) =>
          \A j \in 1..Len(launched) :
              launched[j].file = launched[Len(launched)].file =>
                  launched[j].fn \notin {CmdApply.from_function, CmdIndex.from_function}

C2_Witness ==
    /\ pc = "raised"
    /\ Len(launched) = 6
    /\ launched[2].fn = CmdMdup.from_function
    /\ launched[5].fn = CmdIndex.from_function
    /\ launched[6].fn = CmdRecal.from_function
    /\ FailedExit(last.proc)
    /\ launched[6].start \in FailedStarts

----------------------------------------------------------------------------
(* bundle_pipeline_results.py: names and patterns *)

\* the characters of the names of the model, in code-point order
Ascii ==
    << "*",".","/","0","1","2","3","4","5","6","7","8","9","<",">","A","B","C","D","E","F","G","H","I","J","K","L","M","N","O",
       "P","Q","R","S","T","U","V","W","X","Y","Z","_","a","b","c","d","e","f","g","h","i","j","k","l","m","n","o","p","q","r","s","t","u","v","w","x","y","z" >>

RepoName == <<"r","e","p","o">>
RunsName == <<"r","u","n","s">>
OutName == <<"o","u","t">>
SampleName == <<"S">>
TumorLabel == <<"T","u","m","o","r">>
GermlineLabel == <<"G","e","r","m","l","i","n","e">>
VariantsName == <<"V","a","r","i","a","n","t","s">>
CoverageName == <<"C","o","v","e","r","a","g","e">>
LogsName == <<"L","o","g","s">>
Mutect2Name == <<"M","u","t","e","c","t","2">>
AFastqcHtml == <<"a","_","f","a","s","t","q","c",".","h","t","m","l">>
BHtml == <<"b",".","h","t","m","l">>
MRecalTable == <<"M","_","R","E","C","A","L",".","t","a","b","l","e">>
VVcfGz == <<"v",".","v","c","f",".","g","z">>
RunLog == <<"r","u","n",".","l","o","g">>
ATxt == <<"A",".","t","x","t">>
LowerQcName == <<"q","c">>
Underscore == <<"_">>
Dot == <<".">>
ManifestName == <<"m","a","n","i","f","e","s","t",".","j","s","o","n">>
ReadmeName == <<"B","U","N","D","L","E","_","R","E","A","D","M","E",".","t","x","t">>

QC_PATTERNS ==
    << <<"*","*","/","*","f","a","s","t","q","c",".","h","t","m","l">>,
       <<"*","*","/","*","f","a","s","t","q","c",".","z","i","p">>,
       <<"*","*","/","*",".","j","s","o","n">>,
       <<"*","*","/","*",".","h","t","m","l">> >>

MAPPING_PATTERNS ==
    << <<"*","*","/","*",".","b","a","m">>,
       <<"*","*","/","*",".","b","a","i">>,
       <<"*","*","/","*",".","c","r","a","i">>,
       <<"*","*","/","*",".","s","a","m">>,
       <<"*","*","/","*",".","c","r","a","m">>,
       <<"*","*","/","*",".","t","x","t">>,
       <<"*","*","/","*",".","l","o","g">> >>

PREPROCESS_PATTERNS ==
    << <<"*","*","/","*",".","t","a","b","l","e">>,
       <<"*","*","/","*","R","E","C","A","L","*">>,
       <<"*","*","/","*","B","Q","S","R","*",".","b","a","m">>,
       <<"*","*","/","*","B","Q","S","R","*",".","b","a","i">>,
       <<"*","*","/","*","m","e","t","r","i","c","s","*",".","t","x","t">>,
       <<"*","*","/","*","m","a","r","k","e","d","_","d","u","p","*",".","t","x","t">>,
       <<"*","*","/","*",".","l","o","g">>,
       <<"*","*","/","*",".","t","x","t">> >>

VARIANT_PATTERNS ==
    << <<"*","*","/","*",".","v","c","f">>,
       <<"*","*","/","*",".","v","c","f",".","g","z">>,
       <<"*","*","/","*",".","t","b","i">>,
       <<"*","*","/","*",".","i","d","x">>,
       <<"*","*","/","*",".","s","t","a","t","s">>,
       <<"*","*","/","*",".","l","o","g">>,
       <<"*","*","/","*",".","t","x","t">>,
       <<"*","*","/","*",".","t","s","v">>,
       <<"*","*","/","*",".","c","s","v">> >>

COVERAGE_PATTERNS ==
    << <<"*","*","/","*","m","o","s","d","e","p","t","h","*">>,
       <<"*","*","/","*","c","o","v","e","r","a","g","e","*">>,
       <<"*","*","/","*","d","e","p","t","h","*">>,
       <<"*","*","/","*","C","o","l","l","e","c","t","*","M","e","t","r","i","c","s","*">>,
       <<"*","*","/","*",".","b","e","d">>,
       <<"*","*","/","*",".","t","s","v">>,
       <<"*","*","/","*",".","t","x","t">> >>

LOG_PATTERNS ==
    << <<"*","*","/","*",".","l","o","g">>,
       <<"*","*","/","*","c","o","m","m","a","n","d","*">>,
       <<"*","*","/","*","s","t","d","e","r","r","*">>,
       <<"*","*","/","*","s","t","d","o","u","t","*">>,
       <<"*","*","/","*",".","o","u","t">>,
       <<"*","*","/","*",".","e","r","r">> >>

----------------------------------------------------------------------------
(* pathlib on the run tree: a node is a directory, a regular file, or a
   symbolic link to a file path *)

BDir == [t |-> "dir", to |-> <<>>]
BFile == [t |-> "file", to |-> <<>>]
BLink(target) == [t |-> "link", to |-> target]

\* Path.exists, Path.is_file, Path.is_dir follow links; Path.resolve
BExists(tr, p) == p \in DOMAIN tr /\ (tr[p].t = "link" => tr[p].to \in DOMAIN tr)
BIsFile(tr, p) ==
    /\ p \in DOMAIN tr
    /\ \/ tr[p].t = "file"
       \/ tr[p].t = "link" /\ tr[p].to \in DOMAIN tr /\ tr[tr[p].to].t = "file"
BIsDir(tr, p) == p \in DOMAIN tr /\ tr[p].t = "dir"
Resolve(tr, p) == IF p \in DOMAIN tr /\ tr[p].t = "link" THEN tr[p].to ELSE p

\* fnmatch of one path component against a pattern with "*" wildcards
RECURSIVE FnMatch(_, _)
FnMatch(name, pat) ==
    IF pat = <<>> THEN name = <<>>
    ELSE IF Head(pat) = "*"
    THEN FnMatch(name, Tail(pat)) \/ (name # <<>> /\ FnMatch(Tail(name), pat))
    ELSE name # <<>> /\ Head(name) = Head(pat) /\ FnMatch(Tail(name), Tail(pat))

\* code point of a character
Ord(c) == CHOOSE i \in 1..Len(Ascii) : Ascii[i] = c

\* str < str
StrLess(a, b) ==
    \E i \in 1..(Len(a) + 1) :
        /\ i <= Len(b)
        /\ \A j \in 1..(i - 1) : a[j] = b[j]
        /\ (i = Len(a) + 1 \/ Ord(a[i]) < Ord(b[i]))

\* Path < Path: the parts, compared as lists of strings
PathLess(p, q) ==
    \E i \in 1..(Len(p) + 1) :
        /\ i <= Len(q)
        /\ \A j \in 1..(i - 1) : p[j] = q[j]
        /\ (i = Len(p) + 1 \/ StrLess(p[i], q[i]))

\* sorted(paths)
RECURSIVE SortPaths(_)
SortPaths(S) ==
    IF S = {} THEN <<>>
    ELSE LET m == CHOOSE x \in S : \A y \in S \ {x} : PathLess(x, y)
         IN <<m>> \o SortPaths(S \ {m})

Reverse(q) == [i \in 1..Len(q) |-> q[Len(q) + 1 - i]]

\* root.glob(pat) that looks at the entries of root only
GlobFlat(tr, root, pat, scan) ==
    LET parts == SplitSep(pat)
        hits == {p \in DOMAIN tr :
                    /\ IsPrefix(root, p) /\ Len(p) = Len(root) + 1
                    /\ FnMatch(p[Len(p)], parts[Len(parts)])}
    IN IF scan = "asc" THEN SortPaths(hits) ELSE Reverse(SortPaths(hits))

\* root.glob(pat) for a pattern "**/<name pattern>": every entry below root
\* whose name matches, in the order the directories list their entries (an
\* order the file system fixes for a given tree: scan)
Glob(tr, root, pat, scan) ==
    LET parts == SplitSep(pat)
        hits == {p \in DOMAIN tr :
                    /\ IsPrefix(root, p) /\ Len(p) > Len(root)
                    /\ (parts[1] # <<"*", "*">> => Len(p) = Len(root) + Len(parts))
                    /\ FnMatch(p[Len(p)], parts[Len(parts)])}
    IN IF scan = "asc" THEN SortPaths(hits) ELSE Reverse(SortPaths(hits))

\* files.extend(root.glob(pat)) for pat in patterns
RECURSIVE GlobAll(_, _, _, _)
GlobAll(tr, root, patterns, scan) ==
    IF patterns = <<>> THEN <<>>
    ELSE Glob(tr, root, Head(patterns), scan) \o GlobAll(tr, root, Tail(patterns), scan)

\* the loop of find_files: regular files only, the first path of each
\* resolved path
RECURSIVE Uniq(_, _, _, _)
Uniq(tr, files, uniq, seen) ==
    IF files = <<>> THEN uniq
    ELSE LET f == Head(files)
             key == Resolve(tr, f)
         IN IF BIsFile(tr, f) /\ key \notin seen
            THEN Uniq(tr, Tail(files), Append(uniq, f), seen \cup {key})
            ELSE Uniq(tr, Tail(files), uniq, seen)

\* find_files without the seen set
RECURSIVE KeepFiles(_, _)
KeepFiles(tr, files) ==
    IF files = <<>> THEN <<>>
    ELSE (IF BIsFile(tr, Head(files)) THEN <<Head(files)>> ELSE <<>>)
            \o KeepFiles(tr, Tail(files))

FindFilesNoDedup(tr, root, patterns, scan) ==
    KeepFiles(tr, GlobAll(tr, root, patterns, scan))

\* find_files(root, patterns)
FindFiles(tr, root, patterns, scan) ==
    LET uniq == Uniq(tr, GlobAll(tr, root, patterns, scan), <<>>, {})
    IN SortPaths({uniq[i] : i \in 1..Len(uniq)})

\* relpath_or_name(src, base)
RelpathOrName(p, base) ==
    IF IsPrefix(base, p) /\ Len(p) > Len(base)
    THEN SubSeq(p, Len(base) + 1, Len(p))
    ELSE <<p[Len(p)]>>

----------------------------------------------------------------------------
(* copy_or_link, stage_bundle, guess_variant_dirs *)

RepoRoot == <<RepoName>>
RunsRoot == <<RepoName, RunsName>>
OutDir == <<RepoName, OutName>>

\* a node of the bundle directory: what it is, the resolved source it was
\* staged from, and the run that created it
OutDirNode == [t |-> "dir", from |-> <<>>, gen |-> 0]
Staged(kind, from, gen) == [t |-> kind, from |-> from, gen |-> gen]

Prefixes(p) == {SubSeq(p, 1, i) : i \in 1..Len(p)}

\* p.mkdir(parents=True, exist_ok=True) raises when p or a parent is no directory
MkdirBlocked(o, p) == \E q \in Prefixes(p) : q \in DOMAIN o /\ o[q].t # "dir"
SafeMkdir(o, p) ==
    [q \in DOMAIN o \cup Prefixes(p) |-> IF q \in DOMAIN o THEN o[q] ELSE OutDirNode]

Parent(p) == SubSeq(p, 1, Len(p) - 1)

PutNode(o, p, node) == [q \in DOMAIN o \cup {p} |-> IF q = p THEN node ELSE o[q]]

\* copy_or_link without the test of the destination: copy2 overwrites, and
\* symlink_to raises on an existing destination, in the fallback too
CopyOrLinkNoTest(tr, o, from, dst, mode, gen) ==
    IF MkdirBlocked(o, Parent(dst)) THEN [out |-> o, err |-> TRUE]
    ELSE LET made == SafeMkdir(o, Parent(dst))
         IN IF mode = "copy"
            THEN [out |-> PutNode(made, dst, Staged("file", Resolve(tr, from), gen)),
                  err |-> FALSE]
            ELSE IF dst \in DOMAIN made THEN [out |-> made, err |-> TRUE]
            ELSE [out |-> PutNode(made, dst, Staged("link", Resolve(tr, from), gen)),
                  err |-> FALSE]

\* copy_or_link(src, dst, mode): the bundle directory after it, and whether
\* it raised
CopyOrLink(tr, o, from, dst, mode, gen) ==
    IF MkdirBlocked(o, Parent(dst)) THEN [out |-> o, err |-> TRUE]
    ELSE LET made == SafeMkdir(o, Parent(dst))
         IN IF dst \in DOMAIN made THEN [out |-> made, err |-> FALSE]
            ELSE IF mode = "copy"
            THEN [out |-> PutNode(made, dst, Staged("file", Resolve(tr, from), gen)),
                  err |-> FALSE]
            ELSE [out |-> PutNode(made, dst, Staged("link", Resolve(tr, from), gen)),
                  err |-> FALSE]

\* the loop of stage_bundle over found
RECURSIVE StageLoop(_, _, _, _, _, _, _, _)
StageLoop(tr, acc, found, search_root, dest_dir, repo_root, mode, gen) ==
    IF found = <<>> \/ acc.err THEN acc
    ELSE LET from == Head(found)
             dst == dest_dir \o RelpathOrName(from, search_root)
             r == CopyOrLink(tr, acc.out, from, dst, mode, gen)
             entry == [src |-> from, dst |-> dst,
                       rel_from_repo |-> RelpathOrName(from, repo_root)]
         IN StageLoop(tr,
                      [out |-> r.out, err |-> r.err,
                       copied |-> IF r.err THEN acc.copied ELSE Append(acc.copied, entry)],
                      Tail(found), search_root, dest_dir, repo_root, mode, gen)

\* stage_bundle that stages beside the sources: dest_dir below search_root
StageBundleInPlace(tr, st, label, search_root, patterns, a, gen) ==
    LET found == FindFiles(tr, search_root, patterns, a.scan)
        dest_dir == Join(search_root, label)
    IN IF st.err THEN st
       ELSE IF MkdirBlocked(st.out, dest_dir) THEN [st EXCEPT !.err = TRUE]
       ELSE LET r == StageLoop(tr,
                               [out |-> SafeMkdir(st.out, dest_dir), err |-> FALSE,
                                copied |-> <<>>],
                               found, search_root, dest_dir, RepoRoot, a.mode, gen)
                entry == [search_root |-> search_root, patterns |-> patterns,
                          found_count |-> Len(found),
                          bundled_count |-> Len(r.copied), files |-> r.copied]
            IN IF r.err THEN [st EXCEPT !.out = r.out, !.err = TRUE]
               ELSE [out |-> r.out, err |-> FALSE,
                     manifest |->
                        [st.manifest EXCEPT
                            !.stages = (label :> entry) @@ st.manifest.stages,
                            !.order = IF label \in DOMAIN st.manifest.stages
                                      THEN st.manifest.order
                                      ELSE Append(st.manifest.order, label)]]

\* stage_bundle(label, search_root, patterns, out_root, repo_root, mode,
\* manifest) on state st = [out, manifest, err]
StageBundle(tr, st, label, search_root, patterns, a, gen) ==
    LET found == FindFiles(tr, search_root, patterns, a.scan)
        dest_dir == Join(OutDir, label)
    IN IF st.err THEN st
       ELSE IF MkdirBlocked(st.out, dest_dir) THEN [st EXCEPT !.err = TRUE]
       ELSE LET r == StageLoop(tr,
                               [out |-> SafeMkdir(st.out, dest_dir), err |-> FALSE,
                                copied |-> <<>>],
                               found, search_root, dest_dir, RepoRoot, a.mode, gen)
                entry == [search_root |-> search_root, patterns |-> patterns,
                          found_count |-> Len(found),
                          bundled_count |-> Len(r.copied), files |-> r.copied]
            IN IF r.err THEN [st EXCEPT !.out = r.out, !.err = TRUE]
               ELSE [out |-> r.out, err |-> FALSE,
                     manifest |->
                        [st.manifest EXCEPT
                            !.stages = (label :> entry) @@ st.manifest.stages,
                            !.order = IF label \in DOMAIN st.manifest.stages
                                      THEN st.manifest.order
                                      ELSE Append(st.manifest.order, label)]]

\* "if root.exists(): stage_bundle(...)" of main, entered whatever the root is
StageUnguarded(tr, st, label, search_root, patterns, a, gen) ==
    StageBundle(tr, st, label, search_root, patterns, a, gen)

\* "if root.exists(): stage_bundle(...)" of main
StageIfExists(tr, st, label, search_root, patterns, a, gen) ==
    IF BExists(tr, search_root)
    THEN StageBundle(tr, st, label, search_root, patterns, a, gen)
    ELSE st

\* str.lower of one character
Lower(c) ==
    IF Ord(c) >= Ord("A") /\ Ord(c) <= Ord("Z")
    THEN Ascii[Ord(c) + (Ord("a") - Ord("A"))] ELSE c
LowerStr(n) == [i \in 1..Len(n) |-> Lower(n[i])]

StageDirNames ==
    {<<"q","c">>, <<"m","a","p","p","i","n","g">>,
     <<"p","r","e","p","r","o","c","e","s","s">>}

\* guess_variant_dirs without the fallback to map_dir
GuessVariantDirsNoFallback(tr, sample_dir, maptype, scan) ==
    LET map_dir == sample_dir \o <<maptype>>
        candidates == {p \in DOMAIN tr :
                          /\ Parent(p) = map_dir
                          /\ BIsDir(tr, p)
                          /\ LowerStr(p[Len(p)]) \notin StageDirNames}
    IN IF ~BExists(tr, map_dir) THEN <<>>
       ELSE IF scan = "asc" THEN SortPaths(candidates)
       ELSE Reverse(SortPaths(candidates))

\* guess_variant_dirs(sample_dir, maptype), in the listing order of map_dir
GuessVariantDirs(tr, sample_dir, maptype, scan) ==
    LET map_dir == sample_dir \o <<maptype>>
        candidates == {p \in DOMAIN tr :
                          /\ Parent(p) = map_dir
                          /\ BIsDir(tr, p)
                          /\ LowerStr(p[Len(p)]) \notin StageDirNames}
        listed == IF scan = "asc" THEN SortPaths(candidates)
                  ELSE Reverse(SortPaths(candidates))
    IN IF ~BExists(tr, map_dir) THEN <<>>
       ELSE IF candidates # {} THEN listed ELSE <<map_dir>>

\* path_or_missing(p, label) on the manifest
PathOrMissing(tr, man, p, label) ==
    IF ~BExists(tr, p)
    THEN [man EXCEPT !.missing_roots = Append(@, [label |-> label, path |-> p])]
    ELSE man

----------------------------------------------------------------------------
(* main of bundle_pipeline_results.py *)

\* the (sample_label, sample_dir) pairs main loops over
Roles(a) ==
    << [label |-> TumorLabel,
        dir |-> RunsRoot \o <<a.sample \o Underscore \o a.tumor_name>>],
       [label |-> GermlineLabel,
        dir |-> RunsRoot \o <<a.sample \o Underscore \o a.germline_name>>] >>

Role == Roles(args)[bpc.role]
MapDir == Role.dir \o <<args.maptype>>
StageLabel(name) == Role.label \o Slash \o name
RootLabel(name) == Role.label \o Dot \o name

Here == [out |-> out, manifest |-> manifest, err |-> FALSE]

\* the end of a step of main, an exception being swallowed
GoesOn(st, next) ==
    /\ out' = st.out
    /\ manifest' = st.manifest
    /\ bpc' = next
    /\ UNCHANGED <<src, args, run, disk>>

\* the step's effect on the bundle directory and the manifest; an exception
\* leaves main
Goes(st, next) ==
    /\ out' = st.out
    /\ manifest' = (IF st.err THEN manifest ELSE st.manifest)
    /\ bpc' = IF st.err THEN [at |-> "raised", role |-> bpc.role] ELSE next
    /\ UNCHANGED <<src, args, run, disk>>

At(step) == bpc.at = step
To(step) == [at |-> step, role |-> bpc.role]

\* lines 227-250: the output directory and the empty manifest
BStart ==
    /\ At("init")
    /\ Goes([out |-> SafeMkdir(out, OutDir),
             manifest |-> [mode |-> args.mode, stages |-> <<>>, order |-> <<>>,
                           missing_roots |-> <<>>, notes |-> <<>>],
             err |-> MkdirBlocked(out, OutDir)],
            [at |-> "roots", role |-> 1])

\* lines 260-265: the role's output directory and its three stage roots
BRoots ==
    LET sample_out == OutDir \o <<Role.label>>
        m1 == PathOrMissing(src, manifest, MapDir \o <<QCName>>, RootLabel(QCName))
        m2 == PathOrMissing(src, m1, MapDir \o <<MappingName>>, RootLabel(MappingName))
        m3 == PathOrMissing(src, m2, MapDir \o <<PreProcessName>>,
                            RootLabel(PreProcessName))
    IN /\ At("roots")
       /\ Goes([out |-> SafeMkdir(out, sample_out), manifest |-> m3,
                err |-> MkdirBlocked(out, sample_out)],
               To("qc"))

BQC ==
    /\ At("qc")
    /\ Goes(StageIfExists(src, Here, StageLabel(QCName), MapDir \o <<QCName>>,
                          QC_PATTERNS, args, run),
            To("mapping"))

BMapping ==
    /\ At("mapping")
    /\ Goes(StageIfExists(src, Here, StageLabel(MappingName),
                          MapDir \o <<MappingName>>, MAPPING_PATTERNS, args, run),
            To("preprocess"))

BPreProcess ==
    /\ At("preprocess")
    /\ Goes(StageIfExists(src, Here, StageLabel(PreProcessName),
                          MapDir \o <<PreProcessName>>, PREPROCESS_PATTERNS, args, run),
            To("variants"))

\* the loop over variant_dirs
RECURSIVE VariantLoop(_, _, _, _, _, _)
VariantLoop(tr, st, vdirs, label, a, gen) ==
    IF vdirs = <<>> THEN st
    ELSE LET vdir == Head(vdirs)
             caller_name == vdir[Len(vdir)]
         IN VariantLoop(tr,
                        StageBundle(tr, st, label \o Slash \o VariantsName
                                              \o Slash \o caller_name,
                                    vdir, VARIANT_PATTERNS, a, gen),
                        Tail(vdirs), label, a, gen)

VariantNote(label, map_dir) == [role |-> label, under |-> map_dir]

\* lines 303-320
BVariants ==
    LET variant_dirs == GuessVariantDirs(src, Role.dir, args.maptype, args.scan)
    IN /\ At("variants")
       /\ Goes(IF variant_dirs # <<>>
               THEN VariantLoop(src, Here, variant_dirs, Role.label, args, run)
               ELSE [Here EXCEPT !.manifest.notes =
                                     Append(@, VariantNote(Role.label, MapDir))],
               To("coverage"))

\* lines 322-333
BCoverage ==
    LET m == PathOrMissing(src, manifest, MapDir, RootLabel(<<"M","a","p","R","o","o","t">>))
    IN /\ At("coverage")
       /\ Goes(StageIfExists(src, [Here EXCEPT !.manifest = m],
                             StageLabel(CoverageName), MapDir, COVERAGE_PATTERNS,
                             args, run),
               To("logs"))

\* lines 335-345, and the end of the loop over the roles
BLogs ==
    /\ At("logs")
    /\ Goes(StageIfExists(src, Here, StageLabel(LogsName), Role.dir, LOG_PATTERNS,
                          args, run),
            IF bpc.role < Len(Roles(args))
            THEN [at |-> "roots", role |-> bpc.role + 1]
            ELSE To("write"))

\* lines 347-349: manifest.json is written
BWriteManifest ==
    /\ At("write")
    /\ disk' = [disk EXCEPT !.manifests = Append(@, manifest)]
    /\ out' = PutNode(out, OutDir \o <<ManifestName>>, Staged("file", <<>>, run))
    /\ bpc' = To("guide")
    /\ UNCHANGED <<src, manifest, args, run>>

\* line 396: the guide is written, and main returns
BWriteGuide ==
    /\ At("guide")
    /\ out' = PutNode(out, OutDir \o <<ReadmeName>>, Staged("file", <<>>, run))
    /\ disk' = [disk EXCEPT !.outs = Append(@, out')]
    /\ bpc' = To("done")
    /\ UNCHANGED <<src, manifest, args, run>>

\* the bundler is run again, with the same arguments, on the same tree
BRunAgain ==
    /\ At("done")
    /\ run < MaxRuns
    /\ run' = run + 1
    /\ bpc' = [at |-> "init", role |-> 1]
    /\ UNCHANGED <<src, out, manifest, args, disk>>

(* The run trees *)

TumorDir == RunsRoot \o <<SampleName \o Underscore \o TumorLabel>>
GermDir == RunsRoot \o <<SampleName \o Underscore \o GermlineLabel>>

\* the files, links and empty directories a run tree may hold
Leaves ==
    { [p |-> TumorDir \o <<BwaName, QCName, AFastqcHtml>>, n |-> BFile],
      [p |-> TumorDir \o <<BwaName, QCName, BHtml>>,
       n |-> BLink(TumorDir \o <<BwaName, QCName, AFastqcHtml>>)],
      [p |-> TumorDir \o <<BwaName, MappingName, XBam>>, n |-> BFile],
      [p |-> TumorDir \o <<BwaName, MappingName, LogName>>, n |-> BFile],
      [p |-> TumorDir \o <<BwaName, PreProcessName, Gatk4Name, MRecalTable>>,
       n |-> BFile],
      [p |-> TumorDir \o <<BwaName, Mutect2Name, VVcfGz>>, n |-> BFile],
      [p |-> TumorDir \o <<BwaName, LowerQcName>>, n |-> BDir],
      [p |-> TumorDir \o <<RunLog>>, n |-> BFile],
      [p |-> TumorDir \o <<BwaName, MappingName, ATxt>>,
       n |-> BLink(TumorDir \o <<RunLog>>)],
      [p |-> GermDir \o <<BwaName, PreProcessName>>, n |-> BDir] }

\* the tree that holds the leaves L and the directories above them
TreeOf(L) ==
    LET leafPaths == {l.p : l \in L}
        dirs == UNION {Prefixes(Parent(l.p)) : l \in L} \cup Prefixes(RunsRoot)
    IN [q \in leafPaths \cup dirs |->
          IF q \in leafPaths /\ (CHOOSE l \in L : l.p = q).n.t # "dir"
          THEN (CHOOSE l \in L : l.p = q).n
          ELSE BDir]

InitBundle ==
    /\ PipeInit
    /\ FlowIdle
    /\ \E L \in SUBSET Leaves : Cardinality(L) <= MaxLeaves /\ src = TreeOf(L)
    /\ args \in [mode : {"symlink", "copy"}, scan : {"asc", "desc"},
                 sample : {SampleName}, maptype : {BwaName},
                 tumor_name : {TumorLabel}, germline_name : {GermlineLabel}]
    /\ out = <<>>
    /\ manifest = <<>>
    /\ bpc = [at |-> "init", role |-> 1]
    /\ run = 1
    /\ disk = [manifests |-> <<>>, outs |-> <<>>]

NextBundle ==
    \/ BStart /\ UNCHANGED <<pipeVars, flowVars>>
    \/ BRoots /\ UNCHANGED <<pipeVars, flowVars>>
    \/ BQC /\ UNCHANGED <<pipeVars, flowVars>>
    \/ BMapping /\ UNCHANGED <<pipeVars, flowVars>>
    \/ BPreProcess /\ UNCHANGED <<pipeVars, flowVars>>
    \/ BVariants /\ UNCHANGED <<pipeVars, flowVars>>
    \/ BCoverage /\ UNCHANGED <<pipeVars, flowVars>>
    \/ BLogs /\ UNCHANGED <<pipeVars, flowVars>>
    \/ BWriteManifest /\ UNCHANGED <<pipeVars, flowVars>>
    \/ BWriteGuide /\ UNCHANGED <<pipeVars, flowVars>>
    \/ BRunAgain /\ UNCHANGED <<pipeVars, flowVars>>

SpecBundle == InitBundle /\ [][NextBundle]_vars

----------------------------------------------------------------------------
(* Claims on the bundler *)

\* main has built its manifest
HasManifest == ~(run = 1 /\ At("init"))
\* the loop over the roles is over
RolesDone == bpc.at \in {"write", "guide", "done"}
\* the entries of the bundle directory that staging made
StagedPaths(o) ==
    {p \in DOMAIN o : p \notin {OutDir \o <<ManifestName>>, OutDir \o <<ReadmeName>>}}
StagedFiles(o) == {p \in StagedPaths(o) : o[p].t # "dir"}

\* C8: a second run of the bundler with the same inputs and mode, on an
\* output directory that already holds the staged files, raises no error,
\* creates no additional staged file, overwrites no staged file or link,
\* and records the same staged files as the first run.
C8_IdempotentStaging ==
    run > 1 =>
        /\ ~At("raised")
        /\ StagedPaths(out) = StagedPaths(disk.outs[1])
        /\ \A p \in StagedPaths(out) : out[p] = disk.outs[1][p]
        /\ RolesDone =>
              /\ manifest.stages = disk.manifests[1].stages
              /\ manifest.order = disk.manifests[1].order

C8_Witness ==
    /\ run = 2
    /\ At("done")
    /\ Len(disk.manifests) = 2
    /\ \E p \in StagedFiles(out) : out[p].t = "link" /\ out[p].gen = 1
    /\ \E l \in DOMAIN manifest.stages : Len(manifest.stages[l].files) > 0

\* the patterns of a list that the name of a path matches
Matching(p, patterns) ==
    {i \in 1..Len(patterns) : FnMatch(p[Len(p)], SplitSep(patterns[i])[2])}
\* the regular files below root that some pattern matches
Matches(tr, root, patterns) ==
    {p \in DOMAIN tr : /\ IsPrefix(root, p) /\ Len(p) > Len(root)
                       /\ BIsFile(tr, p)
                       /\ Matching(p, patterns) # {}}
FilesOf(entry, tr, key) ==
    {i \in 1..Len(entry.files) : Resolve(tr, entry.files[i].src) = key}
StagedFrom(o, dest_dir, key) ==
    {p \in StagedFiles(o) : IsPrefix(dest_dir, p) /\ o[p].from = key}

\* C9: a file that matches two or more patterns of a stage, or that is
\* reached by two paths that resolve to the same path, appears exactly once
\* in the stage's 'files' list and is staged exactly once (looked at once the
\* stages of both roles are in the manifest).
C9_Deduplication ==
    RolesDone =>
        \A l \in DOMAIN manifest.stages :
            LET entry == manifest.stages[l]
            IN \A p \in Matches(src, entry.search_root, entry.patterns) :
                   /\ Cardinality(FilesOf(entry, src, Resolve(src, p))) = 1
                   /\ Cardinality(StagedFrom(out, Join(OutDir, l), Resolve(src, p))) = 1

C9_Witness ==
    /\ RolesDone
    /\ \E l \in DOMAIN manifest.stages :
          LET entry == manifest.stages[l]
          IN /\ \E p \in Matches(src, entry.search_root, entry.patterns) :
                    Cardinality(Matching(p, entry.patterns)) >= 2
             /\ \E p, q \in Matches(src, entry.search_root, entry.patterns) :
                    p # q /\ Resolve(src, p) = Resolve(src, q)
             /\ Len(entry.files) = 1

\* the PreProcess root of role i, and its labels
PreProcessRoot(i) == Roles(args)[i].dir \o <<args.maptype, PreProcessName>>
StageLabelOf(i, name) == Roles(args)[i].label \o Slash \o name
Missing(i) == ~BExists(src, PreProcessRoot(i))
StagesOf(m) == DOMAIN m.stages
\* the stages of role i whose roots exist
Expected(i) ==
    LET sample_dir == Roles(args)[i].dir
        map_dir == sample_dir \o <<args.maptype>>
        vdirs == GuessVariantDirs(src, sample_dir, args.maptype, args.scan)
    IN {StageLabelOf(i, n) : n \in {n \in {QCName, MappingName} :
                                       BExists(src, map_dir \o <<n>>)}}
       \cup {StageLabelOf(i, VariantsName) \o Slash \o vdirs[k][Len(vdirs[k])] :
                k \in 1..Len(vdirs)}
       \cup (IF BExists(src, map_dir) THEN {StageLabelOf(i, CoverageName)} ELSE {})
       \cup (IF BExists(src, sample_dir) THEN {StageLabelOf(i, LogsName)} ELSE {})

\* C10: when a sample's PreProcess directory does not exist, main still runs
\* to completion and writes the manifest, records the root in missing_roots,
\* makes no PreProcess stage entry, and still stages QC, Mapping, Variants,
\* Coverage and Logs of the sample whenever their roots exist.
C10_MissingRootTolerance ==
    \A i \in 1..Len(Roles(args)) :
        Missing(i) =>
            /\ ~At("raised")
            /\ (HasManifest /\ ~At("init")) =>
                  StageLabelOf(i, PreProcessName) \notin StagesOf(manifest)
            /\ RolesDone =>
                  /\ \E k \in 1..Len(manifest.missing_roots) :
                        manifest.missing_roots[k] =
                            [label |-> Roles(args)[i].label \o Dot \o PreProcessName,
                             path |-> PreProcessRoot(i)]
                  /\ Expected(i) \subseteq StagesOf(manifest)
            /\ bpc.at \in {"guide", "done"} =>
                  /\ Len(disk.manifests) = run
                  /\ disk.manifests[run] = manifest

C10_Witness ==
    /\ At("done")
    /\ Missing(1)
    /\ ~Missing(2)
    /\ BExists(src, Roles(args)[1].dir \o <<args.maptype, MappingName>>)
    /\ StageLabelOf(1, MappingName) \in StagesOf(manifest)
    /\ Len(manifest.stages[StageLabelOf(1, MappingName)].files) > 0
    /\ StageLabelOf(2, PreProcessName) \in StagesOf(manifest)
    /\ disk.manifests[run] = manifest

----------------------------------------------------------------------------
(* Claims on the manifest entries *)

\* the distinct files (by resolved path) that the stage's patterns match
\* below its search root
Distinct(tr, entry) ==
    {Resolve(tr, p) : p \in Matches(tr, entry.search_root, entry.patterns)}

\* C11: in every stage entry found_count and bundled_count both equal the
\* number of distinct regular files below the search root that match a
\* pattern of the stage, each such file is in 'files', and every dst lies
\* under the output directory's <stage label> (looked at once the stages of
\* both roles are in the manifest).
C11_ManifestComplete ==
    RolesDone =>
        \A l \in DOMAIN manifest.stages :
            LET entry == manifest.stages[l]
                n == Cardinality(Distinct(src, entry))
            IN /\ entry.found_count = n
               /\ entry.bundled_count = n
               /\ \A key \in Distinct(src, entry) : FilesOf(entry, src, key) # {}
               /\ \A i \in 1..Len(entry.files) :
                     /\ IsPrefix(Join(OutDir, l), entry.files[i].dst)
                     /\ Len(entry.files[i].dst) > Len(Join(OutDir, l))

C11_Witness ==
    /\ At("done")
    /\ \E l \in DOMAIN manifest.stages :
          LET entry == manifest.stages[l]
          IN /\ l = TumorLabel \o Slash \o PreProcessName
             /\ entry.found_count = 1
             /\ Len(entry.files) = 1
             /\ entry.files[1].dst =
                   Join(OutDir, l) \o <<Gatk4Name, MRecalTable>>
    /\ \E l \in DOMAIN manifest.stages : manifest.stages[l].found_count = 2

----------------------------------------------------------------------------
(* SpecFolder: create_folder called with every shape of its arguments on a
   working directory holding some of the listed files *)

\* create_folder calls per behaviour
MaxFolderCalls == 1

AltName == <<"a","l","t">>
\* a root directory other than the working directory (folder_directory)
AltDir == <<AltName>>
FastqGzSuffix == <<"f","a","s","t","q",".","g","z">>

\* the files a step may have left in the working directory
FolderFiles == {XBam, VVcfGz, FastqGz, LogName}
\* the file lists, map types, steps and root overrides handed to create_folder
FolderFilesArgs == {{}, {XBam, FastqGz}, {XBam, VVcfGz, FastqGz}, {VVcfGz}}
MapTypeArgs == {None, BwaName}
StepArgs == {QCName, PreProcessName, OtherName}
FolderDirArgs == {None, AltDir}

\* the working directory with the files of S in it
FolderTree(S) ==
    [q \in {WD} \cup {Join(WD, n) : n \in S} |->
        IF q = WD THEN DirNode ELSE FileNode(ToolData)]

CreateFolderCall(all_files, map_type, step, folder_directory) ==
    /\ calls < MaxFolderCalls
    /\ fs' = CreateFolder(fs, WD, all_files, map_type, step, folder_directory)
    /\ calls' = calls + 1
    /\ last' = [op |-> "create_folder", all_files |-> all_files, step |-> step,
                map_type |-> map_type, folder_directory |-> folder_directory,
                pre |-> fs]
    /\ UNCHANGED <<clock, written>>

InitFolder ==
    /\ \E S \in SUBSET FolderFiles : fs = FolderTree(S)
    /\ clock = 0
    /\ calls = 0
    /\ written = {}
    /\ last = [op |-> "none"]
    /\ FlowIdle
    /\ BundleIdle

NextFolder ==
    \E a \in FolderFilesArgs, mt \in MapTypeArgs, st \in StepArgs, fd \in FolderDirArgs :
        CreateFolderCall(a, mt, st, fd) /\ UNCHANGED <<flowVars, bundleVars>>

SpecFolder == InitFolder /\ [][NextFolder]_vars

(* Claims on create_folder *)

\* the directory the call moved its files to
MovedTo ==
    CreateFolderDest(WD, last.map_type, last.step, last.folder_directory)
\* the listed files, and the log, that were in the working directory
Listed == {n \in last.all_files \cup {LogName} : PathExists(last.pre, Join(WD, n))}

\* C12: for a step other than QC create_folder leaves every listed file
\* ending in fastq.gz where it is and moves every other listed file that
\* exists, and log_file.txt, into the stage directory; a listed .vcf.gz is
\* moved.
C12_OnlyFastqStays ==
    (last.op = "create_folder" /\ last.step # QCName) =>
        \A n \in Listed :
            IF EndsWith(n, FastqGzSuffix)
            THEN /\ PathExists(fs, Join(WD, n))
                 /\ fs[Join(WD, n)] = last.pre[Join(WD, n)]
            ELSE /\ ~PathExists(fs, Join(WD, n))
                 /\ PathExists(fs, Join(MovedTo, n))
                 /\ fs[Join(MovedTo, n)] = last.pre[Join(WD, n)]

\* the destination directory as specified
SpecifiedDest ==
    IF last.step = QCName THEN Join(WD, QCName)
    ELSE IF last.map_type # None
    THEN Join(Join(IF last.folder_directory = None THEN WD
                   ELSE last.folder_directory, last.map_type), last.step)
    ELSE Join(WD, last.step)

\* C13: the destination of create_folder is rootDirOverride/mapType/step
\* when a map type is given, workingDir/step when none is given (with or
\* without a root override), and workingDir/QC for the QC step.
C13_DestinationDir ==
    last.op = "create_folder" =>
        /\ IsDir(fs, SpecifiedDest)
        /\ PathExists(last.pre, Join(WD, LogName)) =>
              PathExists(fs, Join(SpecifiedDest, LogName))

----------------------------------------------------------------------------
(* Claims on the stages of main *)

SampleDirOf(i) == Roles(args)[i].dir
MapDirOf(i) == SampleDirOf(i) \o <<args.maptype>>
\* the search root of each stage of role i that has one root
SearchRootOf(i, name) ==
    IF name = CoverageName THEN MapDirOf(i)
    ELSE IF name = LogsName THEN SampleDirOf(i)
    ELSE MapDirOf(i) \o <<name>>
RootedStages == {QCName, MappingName, PreProcessName, CoverageName, LogsName}
MissingPaths(m) == {m.missing_roots[k].path : k \in 1..Len(m.missing_roots)}

\* C16: for each role and each of the stages QC, Mapping, PreProcess,
\* Coverage and Logs, a search root that does not exist is in missing_roots
\* and the stage has no entry in the manifest.
C16_MissingRootsRecorded ==
    RolesDone =>
        \A i \in 1..Len(Roles(args)) : \A name \in RootedStages :
            ~BExists(src, SearchRootOf(i, name)) =>
                /\ SearchRootOf(i, name) \in MissingPaths(manifest)
                /\ StageLabelOf(i, name) \notin StagesOf(manifest)

\* the Variants stages of role i in the manifest
VariantLabels(i) ==
    {l \in StagesOf(manifest) :
        /\ IsPrefix(StageLabelOf(i, VariantsName) \o Slash, l)
        /\ Len(l) > Len(StageLabelOf(i, VariantsName) \o Slash)}
VariantLabelOf(i, dir) == StageLabelOf(i, VariantsName) \o Slash \o dir[Len(dir)]
NotesOf(i) ==
    {k \in 1..Len(manifest.notes) : manifest.notes[k].role = Roles(args)[i].label}
\* the immediate subdirectories of the map-type directory of role i whose
\* names are not in Excluded
SubDirs(i, Excluded(_)) ==
    {p \in DOMAIN src :
        Parent(p) = MapDirOf(i) /\ src[p].t = "dir" /\ ~Excluded(p[Len(p)])}
\* what variant discovery must have left in the manifest, for a given
\* reading of "the known names"
VariantsAsSpecified(Excluded(_)) ==
    (RolesDone /\ ~At("raised")) =>
        \A i \in 1..Len(Roles(args)) :
            LET roots == IF ~BExists(src, MapDirOf(i)) THEN {}
                         ELSE IF SubDirs(i, Excluded) # {} THEN SubDirs(i, Excluded)
                         ELSE {MapDirOf(i)}
            IN /\ VariantLabels(i) = {VariantLabelOf(i, d) : d \in roots}
               /\ \A d \in roots :
                     manifest.stages[VariantLabelOf(i, d)].search_root = d
               /\ Cardinality(NotesOf(i)) = (IF roots = {} THEN 1 ELSE 0)

IsStageName(n) == n \in {QCName, MappingName, PreProcessName}
IsStageNameAnyCase(n) == LowerStr(n) \in StageDirNames

RoleLabels(i) ==
    {l \in StagesOf(manifest) : IsPrefix(Roles(args)[i].label \o Slash, l)}
SourcesOf(entry) ==
    {Resolve(src, entry.files[k].src) : k \in 1..Len(entry.files)}

\* C18: within one role the same source file is never recorded in the
\* manifest entries of two different stages.
C18_StageIsolation ==
    HasManifest =>
        \A i \in 1..Len(Roles(args)) : \A l1, l2 \in RoleLabels(i) :
            l1 # l2 =>
                SourcesOf(manifest.stages[l1]) \cap SourcesOf(manifest.stages[l2]) = {}

\* C19: the 'files' list of every stage entry is in ascending order of
\* the files' resolved absolute paths.
C19_SortedByResolvedPath ==
    HasManifest =>
        \A l \in StagesOf(manifest) :
            LET files == manifest.stages[l].files
            IN \A a, b \in 1..Len(files) :
                  a < b => PathLess(Resolve(src, files[a].src),
                                    Resolve(src, files[b].src))

----------------------------------------------------------------------------
(* SpecRace: delete_files_from_folder one directory entry at a time, while
   another process removes files of the same directory *)

\* files the other process removes during one call
MaxSteals == 1

RaceFolder == StageDir(PreProcessName)

\* one pass of the loop over os.listdir(folder) without the except clause:
\* os.remove of a file that is gone raises FileNotFoundError to the caller
RemoveOneNoCatch(f, folder, name, keep_files) ==
    IF IsDir(f, Join(folder, name)) \/ name \in KeepSet(keep_files)
    THEN [fs |-> f, deleted |-> <<>>, raised |-> FALSE]
    ELSE IF PathExists(f, Join(folder, name))
    THEN [fs |-> Remove(f, Join(folder, name)), deleted |-> <<name>>, raised |-> FALSE]
    ELSE [fs |-> f, deleted |-> <<>>, raised |-> TRUE]

\* one pass of the loop over os.listdir(folder): directories and kept names
\* are skipped, os.remove, and FileNotFoundError is passed over
RemoveOne(f, folder, name, keep_files) ==
    IF IsDir(f, Join(folder, name)) \/ name \in KeepSet(keep_files)
    THEN [fs |-> f, deleted |-> <<>>, raised |-> FALSE]
    ELSE IF PathExists(f, Join(folder, name))
    THEN [fs |-> Remove(f, Join(folder, name)), deleted |-> <<name>>, raised |-> FALSE]
    ELSE [fs |-> f, deleted |-> <<>>, raised |-> FALSE]

\* os.listdir(folder), in one of the orders the file system may give
Listing(f, folder, order) ==
    LET sorted == SortPaths({<<n>> : n \in ListDir(f, folder)})
        names == [i \in 1..Len(sorted) |-> sorted[i][1]]
    IN IF order = "asc" THEN names ELSE Reverse(names)

\* lines 144-158: the folder is a directory, the keep-set, the listing
RaceList(keep_files, order) ==
    /\ pc = "start"
    /\ IsDir(fs, RaceFolder)
    /\ pending' = Listing(fs, RaceFolder, order)
    /\ cfg' = [keep_files |-> keep_files]
    /\ last' = [op |-> "delete_files", pre |-> fs, deleted |-> <<>>, stolen |-> {}]
    /\ pc' = "loop"
    /\ UNCHANGED <<fs, clock, calls, written, cwd, launched>>

\* lines 159-173: one entry of the listing
RaceStep ==
    LET r == RemoveOne(fs, RaceFolder, Head(pending), cfg.keep_files)
    IN /\ pc = "loop"
       /\ pending # <<>>
       /\ fs' = r.fs
       /\ last' = [last EXCEPT !.deleted = @ \o r.deleted]
       /\ pending' = Tail(pending)
       /\ pc' = IF r.raised THEN "raised" ELSE "loop"
       /\ UNCHANGED <<clock, calls, written, cfg, cwd, launched>>

\* line 175
RaceReturn ==
    /\ pc = "loop"
    /\ pending = <<>>
    /\ pc' = "returned"
    /\ UNCHANGED <<pipeVars, cfg, cwd, launched, pending>>

\* another process removes a file of the folder during the loop
OtherRemoves(name) ==
    /\ pc = "loop"
    /\ calls < MaxSteals
    /\ PathExists(fs, Join(RaceFolder, name))
    /\ ~IsDir(fs, Join(RaceFolder, name))
    /\ fs' = Remove(fs, Join(RaceFolder, name))
    /\ calls' = calls + 1
    /\ last' = [last EXCEPT !.stolen = @ \cup {name}]
    /\ UNCHANGED <<clock, written, pc, cfg, cwd, launched, pending>>

\* the stage directory with the files of S, and GATK4/X.bam when sub
RaceTree(S, sub) ==
    LET base == MakeDirs(<<>>, IF sub THEN Gatk4Dir ELSE RaceFolder)
        withSub == IF sub THEN WriteFile(base, Join(Gatk4Dir, XBam), ToolData) ELSE base
    IN [q \in DOMAIN withSub \cup {Join(RaceFolder, n) : n \in S} |->
          IF q \in DOMAIN withSub THEN withSub[q] ELSE FileNode(ToolData)]

InitRace ==
    /\ \E S \in SUBSET {XBam, XBai, YTxt, LogName}, sub \in BOOLEAN :
          fs = RaceTree(S, sub)
    /\ clock = 0
    /\ calls = 0
    /\ written = {}
    /\ last = [op |-> "none"]
    /\ pc = "start"
    /\ cfg = <<>>
    /\ cwd = WD
    /\ launched = <<>>
    /\ pending = <<>>
    /\ BundleIdle

NextRace ==
    \/ \E k \in KeepArgs, order \in {"asc", "desc"} :
            RaceList(k, order) /\ UNCHANGED bundleVars
    \/ RaceStep /\ UNCHANGED bundleVars
    \/ RaceReturn /\ UNCHANGED bundleVars
    \/ \E n \in {XBam, XBai, YTxt, LogName} : OtherRemoves(n) /\ UNCHANGED bundleVars

SpecRace == InitRace /\ [][NextRace]_vars

(* Claim on the race *)

\* the regular files of the folder, when it was listed, that are not in the
\* effective keep-set
Targets ==
    {n \in FilesIn(last.pre, RaceFolder) : ~Protected(n, cfg.keep_files)}
Returned == {last.deleted[i] : i \in 1..Len(last.deleted)}

\* C15: delete_files_from_folder deletes every regular file of the folder
\* whose name is not in the effective keep-set and returns exactly the
\* names it removed itself; a file that another process removed between
\* the listing and the delete raises no error, does not stop the loop, and
\* is not in the returned list.
C15_RaceTolerated ==
    /\ pc # "raised"
    /\ pc = "returned" =>
          /\ \A n \in Targets : ~PathExists(fs, Join(RaceFolder, n))
          /\ Returned = Targets \ last.stolen
          /\ Len(last.deleted) = Cardinality(Returned)
          /\ \A n \in FilesIn(last.pre, RaceFolder) \ (Targets \cup last.stolen) :
                /\ PathExists(fs, Join(RaceFolder, n))
                /\ fs[Join(RaceFolder, n)] = last.pre[Join(RaceFolder, n)]

C15_Witness ==
    /\ pc = "returned"
    /\ YTxt \in last.stolen
    /\ YTxt \in Targets
    /\ XBai \in Targets
    /\ last.deleted = <<XBai>>

----------------------------------------------------------------------------
(* SpecFault: main on an output directory where a regular file may sit at
   the place of a directory that staging has to make, so that mkdir raises *)

\* files, links and empty directories of the run tree
MaxFaultLeaves == 2

\* the output directory holding a regular file at path p
Blocking(p) ==
    PutNode(SafeMkdir(<<>>, Parent(p)), p, Staged("file", <<>>, 0))

\* the output directories main may be started on
OutArgs ==
    {<<>>,
     Blocking(OutDir \o <<TumorLabel, MappingName>>),
     Blocking(OutDir \o <<GermlineLabel>>)}

InitFault ==
    /\ PipeInit
    /\ FlowIdle
    /\ \E L \in SUBSET Leaves : Cardinality(L) <= MaxFaultLeaves /\ src = TreeOf(L)
    /\ args \in [mode : {"symlink", "copy"}, scan : {"asc", "desc"},
                 sample : {SampleName}, maptype : {BwaName},
                 tumor_name : {TumorLabel}, germline_name : {GermlineLabel}]
    /\ out \in OutArgs
    /\ manifest = <<>>
    /\ bpc = [at |-> "init", role |-> 1]
    /\ run = 1
    /\ disk = [manifests |-> <<>>, outs |-> <<>>]

SpecFault == InitFault /\ [][NextBundle]_vars

(* Claim on the writing of the manifest *)

\* every stage of role i whose root exists
AllExpected(i) ==
    Expected(i) \cup (IF Missing(i) THEN {} ELSE {StageLabelOf(i, PreProcessName)})

\* C20: manifest.json is written exactly once per run, after every stage
\* of both roles has been staged and entered; when staging fails the error
\* leaves main and no manifest is written; nothing changes the manifest
\* after it is written.
C20_ManifestWrittenOnce ==
    IF bpc.at \in {"guide", "done"}
    THEN /\ Len(disk.manifests) = run
         /\ disk.manifests[run] = manifest
         /\ \A i \in 1..Len(Roles(args)) :
               AllExpected(i) \subseteq StagesOf(disk.manifests[run])
    ELSE Len(disk.manifests) = run - 1

C20_Witness ==
    /\ At("raised")
    /\ run = 1
    /\ bpc.role = 1
    /\ disk.manifests = <<>>
    /\ StageLabelOf(1, QCName) \in StagesOf(manifest)
    /\ BExists(src, MapDirOf(1) \o <<MappingName>>)

----------------------------------------------------------------------------
(* SpecLive: one run of main while the pipeline works on the same run tree *)

\* files, links and empty directories of the run tree
MaxLiveLeaves == 2
\* changes the pipeline makes to the run tree during the bundling
MaxTouches == 1

\* the pipeline removes a file of the run tree (delete_files_from_folder)
PipelineRemoves(p) ==
    /\ calls < MaxTouches
    /\ p \in DOMAIN src
    /\ src[p].t # "dir"
    /\ src' = [q \in DOMAIN src \ {p} |-> src[q]]
    /\ calls' = calls + 1
    /\ UNCHANGED <<fs, clock, written, last, flowVars, out, manifest, args, bpc, run, disk>>

\* the pipeline moves an output into a stage directory (create_folder)
PipelineWrites(p) ==
    /\ calls < MaxTouches
    /\ p \notin DOMAIN src
    /\ src' = [q \in DOMAIN src \cup Prefixes(p) |->
                  IF q = p THEN BFile ELSE IF q \in DOMAIN src THEN src[q] ELSE BDir]
    /\ calls' = calls + 1
    /\ UNCHANGED <<fs, clock, written, last, flowVars, out, manifest, args, bpc, run, disk>>

\* the run tree of the tumor sample, which the pipeline is working on
LiveLeaves == {l \in Leaves : IsPrefix(TumorDir, l.p)}

InitLive ==
    /\ PipeInit
    /\ FlowIdle
    /\ \E L \in SUBSET LiveLeaves : Cardinality(L) <= MaxLiveLeaves /\ src = TreeOf(L)
    /\ args \in [mode : {"symlink", "copy"}, scan : {"asc"},
                 sample : {SampleName}, maptype : {BwaName},
                 tumor_name : {TumorLabel}, germline_name : {GermlineLabel}]
    /\ out = <<>>
    /\ manifest = <<>>
    /\ bpc = [at |-> "init", role |-> 1]
    /\ run = 1
    /\ disk = [manifests |-> <<>>, outs |-> <<>>]

NextLive ==
    \/ BStart /\ UNCHANGED <<pipeVars, flowVars>>
    \/ BRoots /\ UNCHANGED <<pipeVars, flowVars>>
    \/ BQC /\ UNCHANGED <<pipeVars, flowVars>>
    \/ BMapping /\ UNCHANGED <<pipeVars, flowVars>>
    \/ BPreProcess /\ UNCHANGED <<pipeVars, flowVars>>
    \/ BVariants /\ UNCHANGED <<pipeVars, flowVars>>
    \/ BCoverage /\ UNCHANGED <<pipeVars, flowVars>>
    \/ BLogs /\ UNCHANGED <<pipeVars, flowVars>>
    \/ BWriteManifest /\ UNCHANGED <<pipeVars, flowVars>>
    \/ BWriteGuide /\ UNCHANGED <<pipeVars, flowVars>>
    \/ \E l \in LiveLeaves : PipelineRemoves(l.p)
    \/ PipelineWrites(TumorDir \o <<BwaName, MappingName, XBam>>)

SpecLive == InitLive /\ [][NextLive]_vars

(* Claim on the run tree *)

\* the entries that a step created or changed; mkdir(parents=True,
\* exist_ok=True) creates nothing where a directory already is
Touched ==
    {p \in DOMAIN out' :
        /\ p \notin DOMAIN out \/ out'[p] # out[p]
        /\ ~(out'[p].t = "dir" /\ BIsDir(src, p))}

\* C14: no step of the bundler deletes, moves or rewrites anything under
\* the run root, also while the pipeline works on the same tree, and every
\* file, link or directory it creates lies inside the bundle output
\* directory.
C14_NonDestructive ==
    [][bpc' # bpc =>
          /\ src' = src
          /\ DOMAIN out \subseteq DOMAIN out'
          /\ \A p \in Touched : IsPrefix(OutDir, p) /\ ~IsPrefix(RunsRoot, p)]_vars

C14_Witness ==
    /\ At("done")
    /\ calls = 1
    /\ \E p \in StagedFiles(out) : out[p].from \notin DOMAIN src
    /\ \A p \in StagedFiles(out) : IsPrefix(OutDir, p)

----------------------------------------------------------------------------
(* The audit log as a trail *)

\* the log files of the file system
LogPaths == {p \in DOMAIN fs : p[Len(p)] = LogName /\ fs[p].t = "file"}

\* the fields of a record, in the order they are written
FieldsOf(self, start) == <<self.f_class, self.from_function, self.th, start>>

\* the records of chunks carry start times that never go down
InCallOrder(chunks) ==
    \A i, j \in RecordIdx(chunks) : i < j => chunks[i].f[4] <= chunks[j].f[4]

\* C21: the log after a log_command call is the log before it followed by the
\* new text; no earlier record is altered; the records of every log are in the
\* order the commands were run; and the fields of a record are class,
\* function, thread hint, start time, end time, status, command.
C21_AppendOnlyOrdered ==
    /\ last.op = "log_command" =>
          LET log == LogOf(fs, last.dir)
          IN /\ Len(log) > Len(last.pre)
             /\ SubSeq(log, 1, Len(last.pre)) = last.pre
             /\ \A i \in RecordIdx(Appended) :
                   LET f == Appended[i].f
                   IN /\ Len(f) = 7
                      /\ SubSeq(f, 1, 4) = FieldsOf(last.self, last.start)
                      /\ f[5] \in last.start..clock
                      /\ f[6] \in {StatusSuccess, StatusException}
                                    \cup {StatusExit(n) : n \in FailCodes}
                      /\ f[7] = last.self.command
             /\ \A i \in 1..Len(Appended) :
                   Appended[i].k = "stderr" => Appended[i].f[2] = last.proc.err
    /\ \A p \in LogPaths : InCallOrder(fs[p].c)

\* the third call in one directory has appended to a log that holds the
\* records of the two calls before it
C21_Witness ==
    /\ last.op = "log_command"
    /\ calls = MaxCalls
    /\ Cardinality({last.pre[i].f[4] : i \in RecordIdx(last.pre)}) = 2
    /\ Len(Appended) > 0

----------------------------------------------------------------------------
(* Claims on files create_folder does not find *)

\* the names create_folder was given, the log included
Given == last.all_files \cup {LogName}
\* the given names with no file at workingDir/<name>
Absent == {n \in Given : ~PathExists(last.pre, Join(WD, n))}
\* the given names the step moves when it finds them: all of them for QC,
\* those it does not keep in place (names ending in .gz) otherwise
ToMove == {n \in Given : last.step = QCName \/ ~EndsWith(n, DotGz)}
\* the immediate entries of the working directory
EntriesOf(f) == {p \in DOMAIN f : Len(p) = Len(WD) + 1 /\ IsPrefix(WD, p)}

----------------------------------------------------------------------------
(* Claim on a target directory that is not there *)

\* C23: when baseDir/mapType/step is not a directory, a call of
\* delete_files_from_folder returns an empty list, raises nothing and leaves
\* the whole file system as it was.
C23_NoTargetDir ==
    [][(last'.op = "delete" /\ ~IsDir(fs, StageDir(last'.step))) =>
            /\ fs' = fs
            /\ last'.deleted = {}]_vars

\* a call with a keep-set, made while the working directory holds a tool's
\* output and the stage directory has not been made
C23_Witness ==
    /\ last.op = "delete"
    /\ last.keep_files # {}
    /\ last.deleted = {}
    /\ ~PathExists(fs, StageDir(last.step))
    /\ PathExists(fs, Join(WD, YTxt))

----------------------------------------------------------------------------
(* Claim on pruning in callmapping *)

\* the final output files of the PreProcess stage: the recalibrated BAMs
\* when GATK is on, the mark-duplicate files otherwise
FinalOutputs ==
    IF cfg.gt = "Yes" THEN GatkFiles(fs) ELSE {pending[i] : i \in 1..Len(pending)}
\* the steps of callmapping that come after line 49
PastMappingPrune == {"mdup", "recal", "apply", "index", "prune_pre", "done"}
\* the regular files of a stage directory are all in the effective keep-set
PrunedTo(step, keep_files) ==
    \A n \in FilesIn(fs, StageDir(step)) : Protected(n, keep_files)

\* C24: when middle_files is not "Yes", callmapping prunes Mapping/ after
\* mapping and PreProcess/ after preprocessing whatever var_gatk_tools and
\* issplitchr are, chromosome splitting with GATK included, with the stage's
\* final outputs as keep-set and only once the stage's commands succeeded.
C24_PrunedInEveryConfig ==
    ~mdf_keep =>
        /\ pc \in PastMappingPrune => PrunedTo(MappingName, {XBam})
        /\ pc = "done" => PrunedTo(PreProcessName, FinalOutputs)
        /\ (last.op = "prune" /\ last.ran) => FailedStarts = {}

====
